---------------------------- MODULE Spec2Model ----------------------------
(***************************************************************************)
(* A state-machine model of the ordering engines of sludge:               *)
(*   - DependencyGraph (src/src/dependency_graph.rs)                       *)
(*   - TransformManager (src/src/transform.rs) over the hierarchy manager  *)
(*     and the entity store it reads.                                      *)
(*   - the change-event stream both managers are fed by                    *)
(*   - SceneStack (src/src/scene.rs)                                       *)
(* Slot indices are 1-based here (NodeIndex is 0-based in the code).       *)
(***************************************************************************)
EXTENDS Integers, Sequences, FiniteSets, TLC

VARIABLES
    graph,       \* DependencyGraph.graph: the node slots of the StableGraph
    free_node,   \* the StableGraph's list of vacant slots, most recent first
    edges,       \* the StableGraph's edges <<from, to>>, in order of addition
    indices,     \* DependencyGraph.indices: name -> Node{deps, graph_index}
    sorted,      \* DependencyGraph.sorted: Vec<NodeIndex>
    changed,     \* DependencyGraph.changed
    ret,         \* what the last call returned
    call,        \* history: the last call and its arguments
    latest,      \* history: name -> the value and deps last given to insert()
    nInserts,    \* history: number of insert() calls made so far
    sinceUpdate, \* history: an insert() was made since the last successful update()
    failure      \* history: "fresh" after an update() failed, "edited" once an
                 \* insert() followed it, "recovered" after the update() that then
                 \* succeeded, "none" otherwise

dgVars == <<graph, free_node, edges, indices, sorted, changed,
            ret, call, latest, nInserts, sinceUpdate, failure>>

VARIABLES
    alive,       \* World: the live entities
    nextId,      \* World: the next entity handle spawn() gives out
    transform,   \* World: entity -> its Transform component {local, global}
    parentComp,  \* World: entity -> the entity its Parent component names
    t_events,    \* Transform ComponentEvents past TransformManager.transform_events
    h_parent,    \* HierarchyManager: tracked entity -> its parent
    h_all,       \* HierarchyManager: all(), ancestors first
    h_events,    \* HierarchyEvents past TransformManager.hierarchy_events
    modified,    \* TransformManager.modified
    removed,     \* TransformManager.removed
    panicked,    \* an expect() of TransformManager::update has failed
    stage,       \* history: how far the updates since the last edit spell H,T,H,T
    nEdits,      \* history: number of edits made to the world so far
    detached,    \* history: entities whose tracked parent link was cut by an edit
    cycleDirty   \* history: the entities the first transform update() after the
                 \* last edit found flagged by the events it drained

tmVars == <<alive, nextId, transform, parentComp, t_events, h_parent, h_all,
            h_events, modified, removed, panicked, stage, nEdits, detached,
            cycleDirty>>

VARIABLES
    es_log,       \* EventChannel: the events still stored, oldest first
    es_base,      \* EventChannel: how many events were stored before es_log[1]
    es_cursor,    \* reader -> the number of events its cursor stands behind
    es_ret,       \* what the last drain returned
    es_call,      \* history: the last call on the channel
    es_published, \* history: every event published, in order
    es_subAt,     \* history: reader -> the number of events published before it subscribed
    es_received   \* history: reader -> everything its drains returned, in order

esVars == <<es_log, es_base, es_cursor, es_ret, es_call, es_published,
            es_subAt, es_received>>

VARIABLES
    scenes,      \* SceneStack.scenes, bottom first
    sc_ret,      \* what the last call on the stack returned
    sc_call,     \* history: the last call, its argument and the stack it found
    sc_drawn,    \* history: the scenes whose draw() the last draw() called, in order
    sc_made,     \* history: number of scenes constructed so far
    sc_notified  \* history: the Scene::update and Scene::event calls the last
                 \* call made, in order, as <<method, scene id>>

scVars == <<scenes, sc_ret, sc_call, sc_drawn, sc_made, sc_notified>>

\* SpriteBatch (src/graphics.rs)
VARIABLES
    sb_built,     \* with_capacity has run
    sb_texture,   \* texture: its width, which scales every instance
    sb_sprites,   \* sprites: the arena's slots, each [gen, val], val None when empty
    sb_free,      \* sprites: the arena's free list, the slot taken next first
    sb_instances, \* inner.instances
    sb_capacity,  \* inner.capacity
    sb_buffer,    \* inner.bindings.vertex_buffers[1]: [size, written], in instances
    sb_dirty,     \* dirty
    sb_ret,       \* outcome of the last call: [status, val]
    sb_call,      \* history: the last call
    sb_issued,    \* history: every SpriteIdx insert() has returned
    sb_nInserts   \* history: number of insert() calls so far

sbVars == <<sb_built, sb_texture, sb_sprites, sb_free, sb_instances, sb_capacity,
            sb_buffer, sb_dirty, sb_ret, sb_call, sb_issued, sb_nInserts>>

vars == <<dgVars, tmVars, esVars, scVars, sbVars>>

-----------------------------------------------------------------------------
(* Bounds *)

\* number of insert() calls in a run
MaxInserts == 3

\* longest dependency list given to insert()
MaxDeps == 1

\* number of entities spawned in a run
MaxEntities == 3

\* number of edits (spawn, despawn, component changes) in a run
MaxEdits == 4

\* translations of the modelled transforms are taken modulo TMod
TMod == 3

\* number of events published to the channel in a run
MaxPublish == 3

\* number of drains one cursor makes in a run
MaxDrains == 3

\* number of scenes constructed in a run
MaxScenes == 3

\* number of SpriteBatch::insert calls in a run
MaxSpriteInserts == 3

\* largest capacity given to SpriteBatch::with_capacity
MaxCapacity == 2

-----------------------------------------------------------------------------
(* Helpers on sequences *)

Last(s) == s[Len(s)]

Front(s) == SubSeq(s, 1, Len(s) - 1)

Reverse(s) == [i \in 1..Len(s) |-> s[Len(s) + 1 - i]]

Range(s) == {s[i] : i \in 1..Len(s)}

RECURSIVE SeqsUpTo(_, _)
SeqsUpTo(S, n) ==
    IF n = 0 THEN {<<>>}
    ELSE LET shorter == SeqsUpTo(S, n - 1)
         IN  shorter \cup {Append(s, x) : s \in {t \in shorter : Len(t) = n - 1}, x \in S}

Perms(S) == {p \in [1..Cardinality(S) -> S] : Range(p) = S}

-----------------------------------------------------------------------------
(* DependencyGraph<T> *)

\* Atom: the names given to insert()
Names == {"A", "B", "C"}

DepLists == SeqsUpTo(Names, MaxDeps)

\* a vacant slot of the StableGraph (a node weight of None)
Vacant == <<>>

\* Option<T>
None == <<>>
Some(x) == <<x>>

\* DependencyGraph::new
DGInit ==
    /\ graph = <<>>
    /\ free_node = <<>>
    /\ edges = <<>>
    /\ indices = [n \in {} |-> <<>>]
    /\ sorted = <<>>
    /\ changed = FALSE
    /\ ret = [status |-> "ok", val |-> <<>>]
    /\ call = [op |-> "new"]
    /\ latest = [n \in {} |-> <<>>]
    /\ nInserts = 0
    /\ sinceUpdate = FALSE
    /\ failure = "none"

\* StableGraph::add_node: reuse the most recently vacated slot, else push
AddNodeIndex(g, free) == IF free # <<>> THEN free[1] ELSE Len(g) + 1

AddNode(g, free, weight) ==
    IF free # <<>> THEN [g EXCEPT ![free[1]] = weight] ELSE Append(g, weight)

\* mutant: insert() forgets to remove the node it replaced
MutRemoveNodeKeeps(g, ix) == g

\* StableGraph::remove_node: vacate the slot, drop its edges, head the free list
RemoveNode(g, ix) == [g EXCEPT ![ix] = Vacant]

RemoveNodeEdges(es, ix) == SelectSeq(es, LAMBDA e : e[1] # ix /\ e[2] # ix)

\* mutant: an insert() under a stored name keeps the stored dependency list
MutIndicesInsertKeepsDeps(ind, name, node) ==
    [n \in DOMAIN ind \cup {name} |->
        IF n # name THEN ind[n]
        ELSE IF name \in DOMAIN ind THEN [node EXCEPT !.deps = ind[name].deps]
        ELSE node]

\* HashMap::insert on `indices`
IndicesInsert(ind, name, node) ==
    [n \in DOMAIN ind \cup {name} |-> IF n = name THEN node ELSE ind[n]]

\* mutant: insert() marks the graph dirty only when the node's deps differ
MutInsertChangedIfDifferent(name, deps) ==
    ~(name \in DOMAIN indices /\ indices[name].deps = deps)

\* the flag insert() leaves in `changed`
InsertChanged(name, deps) == TRUE

\* DependencyGraph::insert(value, name, deps)
Insert(value, name, deps) ==
    LET node  == AddNodeIndex(graph, free_node)
        g1    == AddNode(graph, free_node, <<name, value>>)
        free1 == IF free_node # <<>> THEN Tail(free_node) ELSE free_node
        had   == name \in DOMAIN indices
        old   == indices[name].graph_index
    IN  /\ nInserts < MaxInserts
        /\ nInserts' = nInserts + 1
        /\ indices' = IndicesInsert(indices, name, [deps |-> deps, graph_index |-> node])
        /\ changed' = InsertChanged(name, deps)
        /\ sinceUpdate' = TRUE
        /\ failure' = IF failure \in {"fresh", "edited"} THEN "edited" ELSE "none"
        /\ call' = [op |-> "insert", name |-> name, deps |-> deps,
                    prior |-> IF name \in DOMAIN latest THEN Some(latest[name]) ELSE None]
        /\ latest' = [n \in DOMAIN latest \cup {name} |->
                         IF n = name THEN [value |-> value, deps |-> deps] ELSE latest[n]]
        /\ IF had
           THEN /\ graph' = RemoveNode(g1, old)
                /\ free_node' = <<old>> \o free1
                /\ edges' = RemoveNodeEdges(edges, old)
                /\ ret' = [status |-> "ok", val |-> Some(graph[old][2])]
           ELSE /\ graph' = g1
                /\ free_node' = free1
                /\ edges' = edges
                /\ ret' = [status |-> "ok", val |-> None]
        /\ UNCHANGED sorted

\* DependencyGraph::is_dirty
IsDirty == changed

\* mutant: the vacant slots are listed too
MutNodeIdentifiersAllSlots(g) == [i \in 1..Len(g) |-> i]

\* StableGraph::node_identifiers: the occupied slots, ascending
RECURSIVE NodeIdentifiersFrom(_, _)
NodeIdentifiersFrom(g, i) ==
    IF i > Len(g) THEN <<>>
    ELSE (IF g[i] # Vacant THEN <<i>> ELSE <<>>) \o NodeIdentifiersFrom(g, i + 1)

NodeIdentifiers(g) == NodeIdentifiersFrom(g, 1)

\* mutant: the edge points from the node to its dependency
MutNodeEdgesFlipped(ind, node) ==
    LET present == SelectSeq(node.deps, LAMBDA d : d \in DOMAIN ind)
    IN  [k \in 1..Len(present) |-> <<node.graph_index, ind[present[k]].graph_index>>]

\* mutant: a dependency that names no node is kept as an edge on the node itself
MutNodeEdgesDanglingSelf(ind, node) ==
    [k \in 1..Len(node.deps) |->
        <<IF node.deps[k] \in DOMAIN ind THEN ind[node.deps[k]].graph_index
          ELSE node.graph_index, node.graph_index>>]

\* the edges update() adds for one node: one per dependency that names a present node
NodeEdges(ind, node) ==
    LET present == SelectSeq(node.deps, LAMBDA d : d \in DOMAIN ind)
    IN  [k \in 1..Len(present) |-> <<ind[present[k]].graph_index, node.graph_index>>]

\* update(), lines 60-65: clear_edges, then add_edge for every node in the
\* iteration order `order` of indices.values()
RECURSIVE BuildEdges(_, _, _)
BuildEdges(ind, order, k) ==
    IF k > Len(order) THEN <<>>
    ELSE NodeEdges(ind, ind[order[k]]) \o BuildEdges(ind, order, k + 1)

\* StableGraph::neighbors: targets of the outgoing edges, most recently added first
Neighbors(es, n) ==
    LET out == SelectSeq(es, LAMBDA e : e[1] = n)
    IN  [k \in 1..Len(out) |-> out[Len(out) + 1 - k][2]]

\* neighbors of Reversed(graph): sources of the incoming edges, most recent first
ReversedNeighbors(es, n) ==
    LET inc == SelectSeq(es, LAMBDA e : e[2] = n)
    IN  [k \in 1..Len(inc) |-> inc[Len(inc) + 1 - k][1]]

\* petgraph::algo::toposort, first pass: the inner `while let Some(&nx) = stack.last()`
RECURSIVE DfsFinish(_, _)
DfsFinish(es, st) ==
    IF st.cycle # None \/ st.stack = <<>> THEN st
    ELSE LET nx == Last(st.stack)
         IN  IF nx \notin st.discovered
             THEN LET succs == Neighbors(es, nx)
                      disc  == st.discovered \cup {nx}
                  IN  IF nx \in Range(succs)
                      THEN [st EXCEPT !.cycle = Some(nx)]
                      ELSE DfsFinish(es, [st EXCEPT
                               !.discovered = disc,
                               !.stack = st.stack \o SelectSeq(succs, LAMBDA s : s \notin disc)])
             ELSE DfsFinish(es, [st EXCEPT
                      !.stack = Front(st.stack),
                      !.finished = st.finished \cup {nx},
                      !.finish_stack = IF nx \in st.finished THEN st.finish_stack
                                       ELSE Append(st.finish_stack, nx)])

\* first pass, the outer `for i in g.node_identifiers().rev()`
RECURSIVE FinishAll(_, _, _)
FinishAll(es, ids, st) ==
    IF st.cycle # None \/ ids = <<>> THEN st
    ELSE IF Last(ids) \in st.discovered
         THEN FinishAll(es, Front(ids), st)
         ELSE FinishAll(es, Front(ids), DfsFinish(es, [st EXCEPT !.stack = <<Last(ids)>>]))

\* mutant: the second pass is left out
MutFindCycleNone(es, order, k, disc) == None

\* mutant: the second pass searches the graph itself, not the reversed graph
RECURSIVE MutFindCycleForward(_, _, _, _)
MutFindCycleForward(es, order, k, disc) ==
    IF k > Len(order) THEN None
    ELSE LET i == order[k]
         IN  IF i \in disc THEN MutFindCycleForward(es, order, k + 1, disc)
             ELSE LET disc1 == disc \cup {i}
                      succs == SelectSeq(Neighbors(es, i), LAMBDA p : p \notin disc1)
                  IN  IF succs # <<>> THEN Some(Last(succs))
                      ELSE MutFindCycleForward(es, order, k + 1, disc1)

\* second pass: from each node of the reversed finish stack, a search of the
\* reversed graph that yields a second node has found a cycle
RECURSIVE FindCycle(_, _, _, _)
FindCycle(es, order, k, disc) ==
    IF k > Len(order) THEN None
    ELSE LET i == order[k]
         IN  IF i \in disc THEN FindCycle(es, order, k + 1, disc)
             ELSE LET disc1 == disc \cup {i}
                      preds == SelectSeq(ReversedNeighbors(es, i), LAMBDA p : p \notin disc1)
                  IN  IF preds # <<>> THEN Some(Last(preds))
                      ELSE FindCycle(es, order, k + 1, disc1)

\* petgraph::algo::toposort(&graph, None): [cycle |-> Some(node)] or the order
Toposort(g, es) ==
    LET st == FinishAll(es, NodeIdentifiers(g),
                  [stack |-> <<>>, discovered |-> {}, finished |-> {},
                   finish_stack |-> <<>>, cycle |-> None])
        order == Reverse(st.finish_stack)
    IN  IF st.cycle # None THEN [cycle |-> st.cycle, order |-> <<>>]
        ELSE [cycle |-> FindCycle(es, order, 1, {}), order |-> order]

\* mutant: update() recomputes even when nothing changed
MutUpdateNeverNoop == FALSE

\* mutant: a failed update() clears the flag like a successful one
MutErrorClearsChanged == FALSE

\* the early return of update(), lines 54-56
UpdateIsNoop == ~changed

\* what a failed update() leaves in `changed` (the `?` returns before line 76)
ChangedAfterError == changed

\* DependencyGraph::update; `order` is the iteration order of indices.values()
Update(order) ==
    IF UpdateIsNoop
    THEN /\ ret' = [status |-> "ok", val |-> Some(FALSE)]
         /\ call' = [op |-> "update", noop |-> TRUE]
         /\ UNCHANGED <<graph, free_node, edges, indices, sorted, changed,
                        latest, nInserts, sinceUpdate, failure>>
    ELSE LET es == BuildEdges(indices, order, 1)
             ts == Toposort(graph, es)
         IN  /\ edges' = es
             /\ call' = [op |-> "update", noop |-> FALSE]
             /\ IF ts.cycle # None
                THEN /\ ret' = [status |-> "err",
                                val |-> Some(graph[ts.cycle[1]][1])]
                     /\ changed' = ChangedAfterError
                     /\ failure' = "fresh"
                     /\ UNCHANGED <<sorted, sinceUpdate>>
                ELSE /\ sorted' = ts.order
                     /\ changed' = FALSE
                     /\ sinceUpdate' = FALSE
                     /\ failure' = IF failure = "edited" THEN "recovered" ELSE "none"
                     /\ ret' = [status |-> "ok", val |-> Some(TRUE)]
             /\ UNCHANGED <<graph, free_node, indices, latest, nInserts>>

\* the sequence of (name, value) the iterator of sorted() yields
SortedItems == [k \in 1..Len(sorted) |-> graph[sorted[k]]]

\* mutant: sorted() without its assertion
MutSortedNoAssert == FALSE

\* the assertion of sorted(), line 82
SortedAsserts == changed

\* DependencyGraph::sorted
Sorted ==
    /\ ret' = IF SortedAsserts
              THEN [status |-> "panic", val |-> <<>>]
              ELSE [status |-> "ok", val |-> SortedItems]
    /\ call' = [op |-> "sorted"]
    /\ UNCHANGED <<graph, free_node, edges, indices, sorted, changed,
                   latest, nInserts, sinceUpdate, failure>>

\* a call of insert(): the value is a token that tells the calls apart
CallInsert ==
    \E name \in Names, deps \in DepLists :
        Insert(nInserts + 1, name, deps) /\ UNCHANGED <<tmVars, esVars, scVars, sbVars>>

\* a call of update(), under any iteration order of the HashMap
CallUpdate == \E order \in Perms(DOMAIN indices) : Update(order) /\ UNCHANGED <<tmVars, esVars, scVars, sbVars>>

\* a call of sorted()
CallSorted == Sorted /\ UNCHANGED <<tmVars, esVars, scVars, sbVars>>

DGNext ==
    \/ CallInsert
    \/ CallUpdate
    \/ CallSorted

-----------------------------------------------------------------------------
(* Transform3<f32>, modelled by the maps x |-> s*x + t with s in {1,-1} and t  *)
(* taken modulo TMod (a mirror/half turn and a translation): multiplication is *)
(* composition, associative and not commutative.                               *)

Transform3 == [s : {1, -1}, t : 0..(TMod - 1)]

\* Transform3 multiplication, parent * child (transform.rs line 131)
Compose(p, c) == [s |-> p.s * c.s, t |-> (p.t + p.s * c.t) % TMod]

\* the locals the edits choose from
LocalChoices == {[s |-> -1, t |-> 1], [s |-> 1, t |-> 1]}

\* Transform::new
TransformNew(l) == [local |-> l, global |-> l]

-----------------------------------------------------------------------------
(* World: the entity store, and the edits made to it between updates *)

Entity == 1..MaxEntities

\* a partial map without / with one key
Drop(f, e) == [x \in DOMAIN f \ {e} |-> f[x]]
Put(f, e, v) == [x \in DOMAIN f \cup {e} |-> IF x = e THEN v ELSE f[x]]

NoMap == [x \in {} |-> 0]

\* the history of an edit: the updates seen since start over
Edited ==
    /\ nEdits < MaxEdits
    /\ ~panicked
    /\ nEdits' = nEdits + 1
    /\ stage' = 0
    /\ cycleDirty' = {}

\* World::spawn((Transform::new(l),)) or World::spawn((Transform::new(l), Parent::new(p)))
Spawn(l, p) ==
    LET e == nextId
    IN  /\ Edited
        /\ nextId <= MaxEntities
        /\ nextId' = nextId + 1
        /\ alive' = alive \cup {e}
        /\ transform' = Put(transform, e, TransformNew(l))
        /\ parentComp' = IF p = None THEN parentComp ELSE Put(parentComp, e, p[1])
        /\ t_events' = Append(t_events, <<"Inserted", e>>)
        /\ UNCHANGED <<h_parent, h_all, h_events, modified, removed, panicked, detached>>

\* World::despawn(e)
Despawn(e) ==
    /\ Edited
    /\ e \in alive
    /\ alive' = alive \ {e}
    /\ transform' = Drop(transform, e)
    /\ parentComp' = Drop(parentComp, e)
    /\ t_events' = IF e \in DOMAIN transform THEN Append(t_events, <<"Removed", e>>)
                   ELSE t_events
    /\ detached' = (detached \ {e}) \cup
                      {c \in alive \ {e} : c \in DOMAIN h_parent /\ h_parent[c] = e
                                           /\ c \in DOMAIN parentComp /\ parentComp[c] = e}
    /\ UNCHANGED <<nextId, h_parent, h_all, h_events, modified, removed, panicked>>

\* World::remove::<Transform>(e): the entity lives on, with its Parent if it has one
RemoveTransform(e) ==
    /\ Edited
    /\ e \in DOMAIN transform
    /\ transform' = Drop(transform, e)
    /\ t_events' = Append(t_events, <<"Removed", e>>)
    /\ UNCHANGED <<alive, nextId, parentComp, h_parent, h_all, h_events,
                   modified, removed, panicked, detached>>

\* SmartComponent::on_borrow_mut: a mutable borrow of the Transform emits Modified
OnBorrowMut(e) == Append(t_events, <<"Modified", e>>)

\* mutant: the write through local_mut() lands in global as well
MutLocalMutWritesGlobal(tf, e, l) == [tf EXCEPT ![e] = [local |-> l, global |-> l]]

\* *Transform::local_mut() = l: the borrow reaches the local field only
LocalMut(tf, e, l) == [tf EXCEPT ![e].local = l]

\* *world.get_mut::<Transform>(e).local_mut() = l
SetLocal(e, l) ==
    /\ Edited
    /\ e \in DOMAIN transform
    /\ transform' = LocalMut(transform, e, l)
    /\ t_events' = OnBorrowMut(e)
    /\ UNCHANGED <<alive, nextId, parentComp, h_parent, h_all, h_events,
                   modified, removed, panicked, detached>>

\* World::insert(e, (Parent::new(p),)), also over an existing Parent
SetParent(e, p) ==
    /\ Edited
    /\ e \in alive /\ p \in alive
    /\ parentComp' = Put(parentComp, e, p)
    /\ detached' = detached \ {e}
    /\ UNCHANGED <<alive, nextId, transform, t_events, h_parent, h_all, h_events,
                   modified, removed, panicked>>

\* World::remove::<Parent>(e)
RemoveParent(e) ==
    /\ Edited
    /\ e \in DOMAIN parentComp
    /\ parentComp' = Drop(parentComp, e)
    /\ detached' = IF e \in DOMAIN h_parent /\ h_parent[e] = parentComp[e]
                   THEN detached \cup {e} ELSE detached
    /\ UNCHANGED <<alive, nextId, transform, t_events, h_parent, h_all, h_events,
                   modified, removed, panicked>>

-----------------------------------------------------------------------------
(* HierarchyManager<Parent>: its source is not among the files modelled; it is *)
(* modelled from its specification.                                            *)

\* the Parent components of live entities that name a live entity
ResolvedParents ==
    [e \in {x \in alive \cap DOMAIN parentComp : parentComp[x] \in alive} |-> parentComp[e]]

\* the entities reached from e by following P at least once
RECURSIVE AncestorsFrom(_, _, _)
AncestorsFrom(P, e, seen) ==
    IF e \notin DOMAIN P \/ P[e] \in seen THEN seen
    ELSE AncestorsFrom(P, P[e], seen \cup {P[e]})

Ancestors(P, e) == AncestorsFrom(P, e, {})

\* mutant: a loop of Parent components is tracked like any other link
MutTrackedParentsKeepsLoops == ResolvedParents

\* mutant: only a change of tracked status is announced, not a change of parent
RECURSIVE MutHierarchyEventsStatusOnly(_, _, _)
MutHierarchyEventsStatusOnly(old, new, e) ==
    IF e > MaxEntities THEN <<>>
    ELSE (IF e \in DOMAIN old /\ e \notin DOMAIN new THEN << <<"Removed", e>> >>
          ELSE IF e \in DOMAIN new /\ e \notin DOMAIN old
               THEN << <<"ModifiedOrCreated", e>> >>
               ELSE <<>>)
         \o MutHierarchyEventsStatusOnly(old, new, e + 1)

\* cycle policy: an entity that is its own transitive ancestor is not tracked
TrackedParents ==
    LET P == ResolvedParents
    IN  [e \in {x \in DOMAIN P : x \notin Ancestors(P, x)} |-> P[e]]

\* HierarchyManager::parent
HierarchyParent(e) == IF e \in DOMAIN h_parent THEN Some(h_parent[e]) ELSE None

\* HierarchyManager::children
HierarchyChildren(e) == {c \in DOMAIN h_parent : h_parent[c] = e}

\* mutant: all() in any order
MutAnyOrder(P) == Perms(DOMAIN P)

\* the orders all() may have: every tracked parent before its tracked children
\* (an entity on a loop of P can stand before no parent of its own: it is free)
AncestorFirstOrders(P) ==
    {o \in Perms(DOMAIN P) :
        \A i, j \in 1..Len(o) :
            (P[o[j]] = o[i] /\ o[j] \notin Ancestors(P, o[j])) => i < j}

\* the events of one update(), by ascending entity: Removed for an entity no
\* longer tracked, ModifiedOrCreated for one newly tracked or with a new parent
RECURSIVE HierarchyEventsFrom(_, _, _)
HierarchyEventsFrom(old, new, e) ==
    IF e > MaxEntities THEN <<>>
    ELSE (IF e \in DOMAIN old /\ e \notin DOMAIN new THEN << <<"Removed", e>> >>
          ELSE IF e \in DOMAIN new /\ (e \notin DOMAIN old \/ old[e] # new[e])
               THEN << <<"ModifiedOrCreated", e>> >>
               ELSE <<>>)
         \o HierarchyEventsFrom(old, new, e + 1)

\* the history of an update: progress along H,T,H,T since the last edit
StageAfterH == IF stage \in {2, 4} THEN 3 ELSE 1

StageAfterT == IF stage = 1 THEN 2 ELSE IF stage = 3 THEN 4 ELSE 0

\* HierarchyManager::update
HierarchyUpdate ==
    LET new == TrackedParents
    IN  /\ ~panicked
        /\ h_parent' = new
        /\ IF new = h_parent THEN h_all' = h_all
           ELSE \E o \in AncestorFirstOrders(new) : h_all' = o
        /\ h_events' = h_events \o HierarchyEventsFrom(h_parent, new, 1)
        /\ stage' = StageAfterH
        /\ UNCHANGED <<alive, nextId, transform, parentComp, t_events,
                       modified, removed, panicked, nEdits, detached, cycleDirty>>

-----------------------------------------------------------------------------
(* TransformManager<Parent> *)

\* TransformManager::new over World::new and HierarchyManager::new
TMInit ==
    /\ alive = {}
    /\ nextId = 1
    /\ transform = NoMap
    /\ parentComp = NoMap
    /\ t_events = <<>>
    /\ h_parent = NoMap
    /\ h_all = <<>>
    /\ h_events = <<>>
    /\ modified = {}
    /\ removed = {}
    /\ panicked = FALSE
    /\ stage = 0
    /\ nEdits = 0
    /\ detached = {}
    /\ cycleDirty = {}

\* update(), lines 86-95: the hierarchy events read
ModifiedOfHierarchy(evs) == {e \in Entity : <<"ModifiedOrCreated", e>> \in Range(evs)}

\* mutant: `removed` is not cleared when update() starts
MutRemovedKept(evs) == removed \cup {e \in Entity : <<"Removed", e>> \in Range(evs)}

RemovedOfHierarchy(evs) == {e \in Entity : <<"Removed", e>> \in Range(evs)}

\* update(), lines 97-110: the Transform events read
ModifiedOfTransform(evs) ==
    {e \in Entity : <<"Inserted", e>> \in Range(evs) \/ <<"Modified", e>> \in Range(evs)}
    \cup UNION {HierarchyChildren(e) : e \in {x \in Entity : <<"Removed", x>> \in Range(evs)}}

\* mutant: the removed entities are left as they were
MutDetachNothing(tf, rem) == tf

\* mutant: detachment assigns the other way round, local := global
MutDetachWritesLocal(tf, rem) ==
    [e \in DOMAIN tf |-> IF e \in rem THEN [tf[e] EXCEPT !.local = tf[e].global] ELSE tf[e]]

\* update(), lines 112-116: global := local for each removed entity that has a Transform
DetachRemoved(tf, rem) ==
    [e \in DOMAIN tf |-> IF e \in rem THEN [tf[e] EXCEPT !.global = tf[e].local] ELSE tf[e]]

\* mutant: the children of a recomputed entity are not added to `modified`
RECURSIVE MutWalkNoChildren(_, _, _)
MutWalkNoChildren(all, k, st) ==
    IF k > Len(all) \/ st.panic THEN st
    ELSE LET entity == all[k]
         IN  IF entity \notin st.modified THEN MutWalkNoChildren(all, k + 1, st)
             ELSE LET mod == st.modified \ {entity}
                      parent == HierarchyParent(entity)
                  IN  IF \/ parent = None
                         \/ parent[1] \notin DOMAIN st.tf
                         \/ entity \notin DOMAIN st.tf
                      THEN [st EXCEPT !.modified = mod, !.panic = TRUE]
                      ELSE MutWalkNoChildren(all, k + 1,
                               [tf |-> [st.tf EXCEPT ![entity].global =
                                           Compose(st.tf[parent[1]].global, st.tf[entity].local)],
                                modified |-> mod,
                                panic |-> FALSE,
                                written |-> Append(st.written, entity)])

\* mutant: all() is walked from its end
RECURSIVE MutWalkBackwards(_, _, _)
MutWalkBackwards(all, k, st) ==
    IF k > Len(all) \/ st.panic THEN st
    ELSE LET entity == all[Len(all) + 1 - k]
         IN  IF entity \notin st.modified THEN MutWalkBackwards(all, k + 1, st)
             ELSE LET mod == (st.modified \ {entity}) \cup HierarchyChildren(entity)
                      parent == HierarchyParent(entity)
                  IN  IF \/ parent = None
                         \/ parent[1] \notin DOMAIN st.tf
                         \/ entity \notin DOMAIN st.tf
                      THEN [st EXCEPT !.modified = mod, !.panic = TRUE]
                      ELSE MutWalkBackwards(all, k + 1,
                               [tf |-> [st.tf EXCEPT ![entity].global =
                                           Compose(st.tf[parent[1]].global, st.tf[entity].local)],
                                modified |-> mod,
                                panic |-> FALSE,
                                written |-> Append(st.written, entity)])

\* mutant: a dirty entity whose parent or own Transform is missing is skipped
RECURSIVE MutWalkSkipsMissing(_, _, _)
MutWalkSkipsMissing(all, k, st) ==
    IF k > Len(all) \/ st.panic THEN st
    ELSE LET entity == all[k]
         IN  IF entity \notin st.modified THEN MutWalkSkipsMissing(all, k + 1, st)
             ELSE LET mod == (st.modified \ {entity}) \cup HierarchyChildren(entity)
                      parent == HierarchyParent(entity)
                  IN  IF \/ parent = None
                         \/ parent[1] \notin DOMAIN st.tf
                         \/ entity \notin DOMAIN st.tf
                      THEN MutWalkSkipsMissing(all, k + 1, [st EXCEPT !.modified = mod])
                      ELSE MutWalkSkipsMissing(all, k + 1,
                               [tf |-> [st.tf EXCEPT ![entity].global =
                                           Compose(st.tf[parent[1]].global, st.tf[entity].local)],
                                modified |-> mod,
                                panic |-> FALSE,
                                written |-> Append(st.written, entity)])

\* update(), lines 118-133: the walk of all(); st = [tf, modified, panic, written],
\* written: the entities whose global the walk has assigned, in order
RECURSIVE Walk(_, _, _)
Walk(all, k, st) ==
    IF k > Len(all) \/ st.panic THEN st
    ELSE LET entity == all[k]
         IN  IF entity \notin st.modified THEN Walk(all, k + 1, st)
             ELSE LET mod == (st.modified \ {entity}) \cup HierarchyChildren(entity)
                      parent == HierarchyParent(entity)
                  IN  IF \/ parent = None
                         \/ parent[1] \notin DOMAIN st.tf
                         \/ entity \notin DOMAIN st.tf
                      THEN [st EXCEPT !.modified = mod, !.panic = TRUE]
                      ELSE Walk(all, k + 1,
                               [tf |-> [st.tf EXCEPT ![entity].global =
                                           Compose(st.tf[parent[1]].global, st.tf[entity].local)],
                                modified |-> mod,
                                panic |-> FALSE,
                                written |-> Append(st.written, entity)])

\* mutant: what is left in `modified` after the walk is not resolved
MutResolveNothing(tf, mod) == tf

\* update(), lines 135-139: global := local for what is left in `modified`
ResolveRemaining(tf, mod) ==
    [e \in DOMAIN tf |-> IF e \in mod THEN [tf[e] EXCEPT !.global = tf[e].local] ELSE tf[e]]

\* update(), lines 86-110: `modified` when the walk starts
ModifiedAtWalk == ModifiedOfHierarchy(h_events) \cup ModifiedOfTransform(t_events)

\* update(), lines 118-133: the walk update() makes from the current state
WalkOfUpdate ==
    Walk(h_all, 1, [tf |-> DetachRemoved(transform, RemovedOfHierarchy(h_events)),
                    modified |-> ModifiedAtWalk, panic |-> FALSE, written |-> <<>>])

\* TransformManager::update
TransformUpdate ==
    LET rem  == RemovedOfHierarchy(h_events)
        mod  == ModifiedAtWalk
        st   == WalkOfUpdate
    IN  /\ ~panicked
        /\ removed' = rem
        /\ modified' = st.modified
        /\ h_events' = <<>>
        /\ t_events' = <<>>
        /\ panicked' = st.panic
        /\ transform' = IF st.panic THEN st.tf ELSE ResolveRemaining(st.tf, st.modified)
        /\ stage' = IF st.panic THEN stage ELSE StageAfterT
        /\ cycleDirty' = IF st.panic THEN {}
                         ELSE IF stage = 1 THEN mod
                         ELSE IF stage = 3 THEN cycleDirty ELSE {}
        /\ UNCHANGED <<alive, nextId, parentComp, h_parent, h_all, nEdits, detached>>

DoSpawn ==
    \E l \in LocalChoices, p \in {None} \cup {Some(x) : x \in alive} :
        Spawn(l, p) /\ UNCHANGED <<dgVars, esVars, scVars, sbVars>>

DoDespawn == \E e \in Entity : Despawn(e) /\ UNCHANGED <<dgVars, esVars, scVars, sbVars>>

DoRemoveTransform == \E e \in Entity : RemoveTransform(e) /\ UNCHANGED <<dgVars, esVars, scVars, sbVars>>

DoSetLocal == \E e \in Entity, l \in LocalChoices : SetLocal(e, l) /\ UNCHANGED <<dgVars, esVars, scVars, sbVars>>

DoSetParent == \E e \in Entity, q \in Entity : SetParent(e, q) /\ UNCHANGED <<dgVars, esVars, scVars, sbVars>>

DoRemoveParent == \E e \in Entity : RemoveParent(e) /\ UNCHANGED <<dgVars, esVars, scVars, sbVars>>

DoHierarchyUpdate == HierarchyUpdate /\ UNCHANGED <<dgVars, esVars, scVars, sbVars>>

DoTransformUpdate == TransformUpdate /\ UNCHANGED <<dgVars, esVars, scVars, sbVars>>

TMNext ==
    \/ DoSpawn
    \/ DoDespawn
    \/ DoRemoveTransform
    \/ DoSetLocal
    \/ DoSetParent
    \/ DoRemoveParent
    \/ DoHierarchyUpdate
    \/ DoTransformUpdate

-----------------------------------------------------------------------------
(* The change-event stream (the channel behind World::track and              *)
(* HierarchyManager::track, read through a ReaderId): its source is not among *)
(* the files modelled; it is modelled from its specification.                 *)

\* the consumers that may hold a cursor
Reader == {1, 2}

\* the events the producer chooses from
EventChoices == {<<"Modified", 1>>, <<"Removed", 1>>}

ESInit ==
    /\ es_log = <<>>
    /\ es_base = 0
    /\ es_cursor = NoMap
    /\ es_ret = <<>>
    /\ es_call = [op |-> "new"]
    /\ es_published = <<>>
    /\ es_subAt = NoMap
    /\ es_received = NoMap

\* the number of events ever appended to the log
LogTail == es_base + Len(es_log)

\* publish(event): append to the log
Publish(ev) ==
    /\ Len(es_published) < MaxPublish
    /\ es_log' = Append(es_log, ev)
    /\ es_published' = Append(es_published, ev)
    /\ es_call' = [op |-> "publish"]
    /\ UNCHANGED <<es_base, es_cursor, es_ret, es_subAt, es_received>>

\* mutant: a new cursor starts at the oldest event still stored
MutSubscribeAtOldest == es_base

\* where subscribe() puts the new cursor: the current tail of the log
SubscribeAt == LogTail

\* subscribe(), as World::track and HierarchyManager::track do for the manager
Subscribe(r) ==
    /\ r \notin DOMAIN es_cursor
    /\ es_cursor' = Put(es_cursor, r, SubscribeAt)
    /\ es_subAt' = Put(es_subAt, r, Len(es_published))
    /\ es_received' = Put(es_received, r, [drains |-> 0, events |-> <<>>])
    /\ es_call' = [op |-> "subscribe", reader |-> r]
    /\ UNCHANGED <<es_log, es_base, es_ret, es_published>>

\* the events a cursor standing behind `pos` events has yet to see
PendingAt(pos) == SubSeq(es_log, pos - es_base + 1, Len(es_log))

Pending(r) == PendingAt(es_cursor[r])

\* mutant: drain leaves the cursor where it was
MutCursorStays(pos) == pos

\* where drain leaves the cursor: past everything it returned
CursorAfterDrain(pos) == LogTail

\* drain(cursor): the events appended since the cursor's last drain
Drain(r) ==
    /\ r \in DOMAIN es_cursor
    /\ es_received[r].drains < MaxDrains
    /\ es_ret' = Pending(r)
    /\ es_cursor' = [es_cursor EXCEPT ![r] = CursorAfterDrain(es_cursor[r])]
    /\ es_received' = [es_received EXCEPT ![r] =
                          [drains |-> @.drains + 1, events |-> @.events \o Pending(r)]]
    /\ es_call' = [op |-> "drain", reader |-> r,
                   first |-> es_received[r].drains = 0,
                   others |-> [d \in DOMAIN es_cursor \ {r} |-> Pending(d)]]
    /\ UNCHANGED <<es_log, es_base, es_published, es_subAt>>

\* the number of events every live cursor has passed (all of them with no cursor)
RECURSIVE PassedByAll(_, _)
PassedByAll(rs, least) ==
    IF rs = {} THEN least
    ELSE LET r == CHOOSE x \in rs : TRUE
         IN  PassedByAll(rs \ {r}, IF es_cursor[r] < least THEN es_cursor[r] ELSE least)

\* compaction: the log forgets the entries every live cursor has passed
Compact ==
    LET keepFrom == PassedByAll(DOMAIN es_cursor, LogTail)
    IN  /\ keepFrom > es_base
        /\ es_log' = SubSeq(es_log, keepFrom - es_base + 1, Len(es_log))
        /\ es_base' = keepFrom
        /\ es_call' = [op |-> "compact"]
        /\ UNCHANGED <<es_cursor, es_ret, es_published, es_subAt, es_received>>

DoPublish == \E ev \in EventChoices : Publish(ev) /\ UNCHANGED <<dgVars, tmVars, scVars, sbVars>>

DoSubscribe == \E r \in Reader : Subscribe(r) /\ UNCHANGED <<dgVars, tmVars, scVars, sbVars>>

DoDrain == \E r \in Reader : Drain(r) /\ UNCHANGED <<dgVars, tmVars, scVars, sbVars>>

DoCompact == Compact /\ UNCHANGED <<dgVars, tmVars, scVars, sbVars>>

ESNext ==
    \/ DoPublish
    \/ DoSubscribe
    \/ DoDrain
    \/ DoCompact

-----------------------------------------------------------------------------
(* SceneStack<C, Ev> (src/src/scene.rs). A scene is known by what the stack   *)
(* asks of it: its identity, its draw_previous() and the result of its draw(). *)

\* a Box<dyn Scene>: draw_ok tells whether its draw() returns Ok
SceneOf(id, dp, ok) == [id |-> id, draw_previous |-> dp, draw_ok |-> ok]

\* SceneStack::new
SCInit ==
    /\ scenes = <<>>
    /\ sc_ret = [status |-> "ok", val |-> None]
    /\ sc_call = [op |-> "new"]
    /\ sc_drawn = <<>>
    /\ sc_made = 0
    /\ sc_notified = <<>>

\* SceneSwitch
SwitchNone == [kind |-> "None"]
SwitchPop == [kind |-> "Pop"]
SwitchPush(s) == [kind |-> "Push", scene |-> s]
SwitchReplace(s) == [kind |-> "Replace", scene |-> s]

\* the scene a SceneSwitch carries, if any
GivenScene(next) == IF next.kind \in {"Push", "Replace"} THEN Some(next.scene) ELSE None

\* mutant: the new scene goes under the stack
MutPushAtBottom(scs, s) == <<s>> \o scs

\* SceneStack::push
Push(scs, s) == Append(scs, s)

\* SceneStack::pop: the expect() fails on an empty stack
PopPanics(scs) == scs = <<>>

PopScenes(scs) == Front(scs)

\* SceneStack::current: the expect() fails on an empty stack
CurrentPanics(scs) == scs = <<>>

\* mutant: Replace pushes the new scene over the old one
MutSwitchReplacePushes(scs, next) ==
    IF next.kind = "None" THEN scs
    ELSE IF next.kind = "Pop" THEN PopScenes(scs)
    ELSE Push(scs, next.scene)

\* SceneStack::switch: the stack it leaves, when no pop() of it panics
SwitchScenes(scs, next) ==
    IF next.kind = "None" THEN scs
    ELSE IF next.kind = "Pop" THEN PopScenes(scs)
    ELSE IF next.kind = "Push" THEN Push(scs, next.scene)
    ELSE Push(PopScenes(scs), next.scene)

\* SceneStack::switch: what it returns
SwitchReturns(scs, next) ==
    IF next.kind \in {"Pop", "Replace"} THEN Some(Last(scs)) ELSE None

\* SceneStack::switch: Pop and Replace call pop()
SwitchPanics(scs, next) == next.kind \in {"Pop", "Replace"} /\ PopPanics(scs)

\* mutant: Replace pushes the new scene before it pops the old one
MutSwitchPushesBeforePop(scs, next) ==
    IF next.kind = "Replace" THEN Push(scs, next.scene) ELSE scs

\* SceneStack::switch: the stack a panicking switch leaves; pop() is called
\* before the new scene is pushed
SwitchPanicScenes(scs, next) == scs

\* the assertion of draw_scenes, line 143
DrawScenesAsserts(scs) == Len(scs) = 0

\* SceneStack::draw_scenes: the outcome and the draw() calls made, in order
RECURSIVE DrawScenes(_)
DrawScenes(scs) ==
    IF DrawScenesAsserts(scs) THEN [status |-> "panic", drawn |-> <<>>]
    ELSE LET current == Last(scs)
             rest    == Front(scs)
             below   == IF current.draw_previous THEN DrawScenes(rest)
                        ELSE [status |-> "ok", drawn |-> <<>>]
         IN  IF below.status # "ok" THEN below
             ELSE [status |-> IF current.draw_ok THEN "ok" ELSE "err",
                   drawn |-> Append(below.drawn, current.id)]

\* a call of SceneStack::push with a new scene
ScPush(s) ==
    /\ sc_made < MaxScenes
    /\ sc_made' = sc_made + 1
    /\ scenes' = Push(scenes, s)
    /\ sc_ret' = [status |-> "ok", val |-> None]
    /\ sc_call' = [op |-> "push", given |-> Some(s), before |-> scenes]
    /\ sc_notified' = <<>>
    /\ UNCHANGED sc_drawn

\* a call of SceneStack::pop
ScPop ==
    /\ sc_call' = [op |-> "pop", given |-> None, before |-> scenes]
    /\ IF PopPanics(scenes)
       THEN sc_ret' = [status |-> "panic", val |-> None] /\ UNCHANGED scenes
       ELSE sc_ret' = [status |-> "ok", val |-> Some(Last(scenes))]
            /\ scenes' = PopScenes(scenes)
    /\ sc_notified' = <<>>
    /\ UNCHANGED <<sc_drawn, sc_made>>

\* a call of SceneStack::current
ScCurrent ==
    /\ sc_call' = [op |-> "current", given |-> None, before |-> scenes]
    /\ sc_ret' = IF CurrentPanics(scenes) THEN [status |-> "panic", val |-> None]
                 ELSE [status |-> "ok", val |-> Some(Last(scenes))]
    /\ sc_notified' = <<>>
    /\ UNCHANGED <<scenes, sc_drawn, sc_made>>

\* a call of SceneStack::switch
ScSwitch(next) ==
    /\ sc_call' = [op |-> "switch", kind |-> next.kind, given |-> GivenScene(next),
                   before |-> scenes]
    /\ sc_made' = IF GivenScene(next) = None THEN sc_made ELSE sc_made + 1
    /\ sc_made' <= MaxScenes
    /\ IF SwitchPanics(scenes, next)
       THEN sc_ret' = [status |-> "panic", val |-> None]
            /\ scenes' = SwitchPanicScenes(scenes, next)
       ELSE sc_ret' = [status |-> "ok", val |-> SwitchReturns(scenes, next)]
            /\ scenes' = SwitchScenes(scenes, next)
    /\ sc_notified' = <<>>
    /\ UNCHANGED sc_drawn

\* a call of SceneStack::draw
ScDraw ==
    LET out == DrawScenes(scenes)
    IN  /\ sc_call' = [op |-> "draw", given |-> None, before |-> scenes]
        /\ sc_ret' = [status |-> out.status, val |-> None]
        /\ sc_drawn' = out.drawn
        /\ sc_notified' = <<>>
        /\ UNCHANGED <<scenes, sc_made>>

\* what Scene::update of the current scene answers: Err, or Ok(SceneSwitch)
UpdateErr == [ok |-> FALSE]
UpdateOk(next) == [ok |-> TRUE, next |-> next]

\* SceneStack::update: the expect() fails on an empty stack
UpdatePanics(scs) == scs = <<>>

\* mutant: the SceneSwitch the scene answered is dropped
MutUpdateDropsSwitch(scs, answer) == scs

\* SceneStack::update: the stack it leaves; an Err returns before switch()
UpdateScenes(scs, answer) ==
    IF answer.ok THEN SwitchScenes(scs, answer.next) ELSE scs

\* a call of SceneStack::update, the current scene answering `answer`
ScUpdate(answer) ==
    LET given == IF answer.ok THEN GivenScene(answer.next) ELSE None
    IN  /\ sc_call' = [op |-> "update", answer |-> answer, given |-> given,
                       before |-> scenes]
        /\ sc_made' = IF given = None THEN sc_made ELSE sc_made + 1
        /\ sc_made' <= MaxScenes
        /\ IF UpdatePanics(scenes)
           THEN /\ answer = UpdateErr
                /\ sc_ret' = [status |-> "panic", val |-> None]
                /\ sc_notified' = <<>>
                /\ UNCHANGED scenes
           ELSE /\ sc_notified' = << <<"update", Last(scenes).id>> >>
                /\ sc_ret' = [status |-> IF answer.ok THEN "ok" ELSE "err", val |-> None]
                /\ scenes' = UpdateScenes(scenes, answer)
        /\ UNCHANGED sc_drawn

\* SceneStack::event: the expect() fails on an empty stack
EventPanics(scs) == scs = <<>>

\* a call of SceneStack::event
ScEvent ==
    /\ sc_call' = [op |-> "event", given |-> None, before |-> scenes]
    /\ IF EventPanics(scenes)
       THEN sc_ret' = [status |-> "panic", val |-> None] /\ sc_notified' = <<>>
       ELSE sc_ret' = [status |-> "ok", val |-> None]
            /\ sc_notified' = << <<"event", Last(scenes).id>> >>
    /\ UNCHANGED <<scenes, sc_drawn, sc_made>>

\* the scenes a caller may construct next
NewScenes == {SceneOf(sc_made + 1, dp, ok) : dp \in BOOLEAN, ok \in BOOLEAN}

DoScPush == \E s \in NewScenes : ScPush(s) /\ UNCHANGED <<dgVars, tmVars, esVars, sbVars>>

DoScPop == ScPop /\ UNCHANGED <<dgVars, tmVars, esVars, sbVars>>

DoScCurrent == ScCurrent /\ UNCHANGED <<dgVars, tmVars, esVars, sbVars>>

DoScSwitch ==
    \E next \in {SwitchNone, SwitchPop} \cup {SwitchPush(s) : s \in NewScenes}
                   \cup {SwitchReplace(s) : s \in NewScenes} :
        ScSwitch(next) /\ UNCHANGED <<dgVars, tmVars, esVars, sbVars>>

DoScDraw == ScDraw /\ UNCHANGED <<dgVars, tmVars, esVars, sbVars>>

\* the SceneSwitch values a caller or a scene may hand over
SwitchChoices ==
    {SwitchNone, SwitchPop} \cup {SwitchPush(s) : s \in NewScenes}
        \cup {SwitchReplace(s) : s \in NewScenes}

DoScUpdate ==
    \E answer \in {UpdateErr} \cup {UpdateOk(next) : next \in SwitchChoices} :
        ScUpdate(answer) /\ UNCHANGED <<dgVars, tmVars, esVars, sbVars>>

DoScEvent == ScEvent /\ UNCHANGED <<dgVars, tmVars, esVars, sbVars>>

SCNext ==
    \/ DoScPush
    \/ DoScPop
    \/ DoScCurrent
    \/ DoScSwitch
    \/ DoScDraw
    \/ DoScUpdate
    \/ DoScEvent

-----------------------------------------------------------------------------

-----------------------------------------------------------------------------
(* SpriteBatch (src/graphics.rs), over a thunderdome Arena and a stream buffer *)

\* InstanceParam: what of it reaches the instance, the source extent and tx
ParamChoices == {[extent |-> 1, tx |-> 1], [extent |-> 2, tx |-> 1]}

\* Texture: its width
TextureChoices == {1, 2}

\* flush(), lines 1394-1402: scale2(src.extent), scale2(texture size),
\* to_instance_properties
ToInstanceProperties(param, texture) ==
    [src |-> param.extent, tx |-> param.tx * param.extent * texture]

\* Buffer::stream(.., capacity * size_of::<InstanceProperties>()): nothing written yet
BufferStream(capacity) == [size |-> capacity, written |-> 0]

\* the state before SpriteBatch::with_capacity
SBInit ==
    /\ sb_built = FALSE
    /\ sb_texture = 1
    /\ sb_sprites = <<>>
    /\ sb_free = <<>>
    /\ sb_instances = <<>>
    /\ sb_capacity = 0
    /\ sb_buffer = BufferStream(0)
    /\ sb_dirty = FALSE
    /\ sb_ret = [status |-> "ok", val |-> None]
    /\ sb_call = [op |-> "none"]
    /\ sb_issued = {}
    /\ sb_nInserts = 0

\* SpriteBatch::with_capacity
WithCapacity(texture, capacity) ==
    /\ ~sb_built
    /\ sb_built' = TRUE
    /\ sb_texture' = texture
    /\ sb_sprites' = <<>>
    /\ sb_free' = <<>>
    /\ sb_instances' = <<>>
    /\ sb_capacity' = capacity
    /\ sb_buffer' = BufferStream(capacity)
    /\ sb_dirty' = TRUE
    /\ sb_ret' = [status |-> "ok", val |-> None]
    /\ sb_call' = [op |-> "with_capacity", capacity |-> capacity]
    /\ UNCHANGED <<sb_issued, sb_nInserts>>

\* the batch is built and no call on it has panicked: a panic ends its use
SbUsable == sb_built /\ sb_ret.status # "panic"

\* Arena: the slot an Index names holds a value of the Index's generation
ArenaContains(slots, index) ==
    /\ index[1] \in 1..Len(slots)
    /\ slots[index[1]].gen = index[2]
    /\ slots[index[1]].val # None

\* Arena::insert: the slot at the head of the free list with its generation
\* advanced, a new slot of the first generation when the list is empty
ArenaInsertIndex(slots, free) ==
    IF free = <<>> THEN <<Len(slots) + 1, 1>>
    ELSE <<free[1], slots[free[1]].gen + 1>>

ArenaInsert(slots, free, value) ==
    LET index == ArenaInsertIndex(slots, free)
        entry == [gen |-> index[2], val |-> Some(value)]
    IN  IF free = <<>> THEN Append(slots, entry)
        ELSE [slots EXCEPT ![index[1]] = entry]

\* Arena::remove: an Index that names no value removes nothing
ArenaRemove(slots, index) ==
    IF ArenaContains(slots, index) THEN [slots EXCEPT ![index[1]].val = None]
    ELSE slots

ArenaRemoveFree(slots, free, index) ==
    IF ArenaContains(slots, index) THEN <<index[1]>> \o free ELSE free

\* Arena::clear: every value is removed, by ascending slot
ArenaClear(slots) == [k \in 1..Len(slots) |-> [slots[k] EXCEPT !.val = None]]

RECURSIVE ArenaClearFree(_, _, _)
ArenaClearFree(slots, free, k) ==
    IF k > Len(slots) THEN free
    ELSE ArenaClearFree(slots, IF slots[k].val # None THEN <<k>> \o free ELSE free, k + 1)

\* Arena::iter: the values, by ascending slot
RECURSIVE ArenaIter(_, _)
ArenaIter(slots, k) ==
    IF k > Len(slots) THEN <<>>
    ELSE (IF slots[k].val # None THEN <<slots[k].val[1]>> ELSE <<>>)
         \o ArenaIter(slots, k + 1)

\* SpriteBatch::insert
SbInsert(param) ==
    /\ SbUsable
    /\ sb_nInserts < MaxSpriteInserts
    /\ sb_nInserts' = sb_nInserts + 1
    /\ sb_dirty' = TRUE
    /\ sb_sprites' = ArenaInsert(sb_sprites, sb_free, param)
    /\ sb_free' = IF sb_free = <<>> THEN sb_free ELSE Tail(sb_free)
    /\ sb_ret' = [status |-> "ok", val |-> Some(ArenaInsertIndex(sb_sprites, sb_free))]
    /\ sb_issued' = sb_issued \cup {ArenaInsertIndex(sb_sprites, sb_free)}
    /\ sb_call' = [op |-> "insert", param |-> param]
    /\ UNCHANGED <<sb_built, sb_texture, sb_instances, sb_capacity, sb_buffer>>

\* SpriteBatch::remove
SbRemove(index) ==
    /\ SbUsable
    /\ sb_dirty' = TRUE
    /\ sb_sprites' = ArenaRemove(sb_sprites, index)
    /\ sb_free' = ArenaRemoveFree(sb_sprites, sb_free, index)
    /\ sb_ret' = [status |-> "ok", val |-> None]
    /\ sb_call' = [op |-> "remove", index |-> index]
    /\ UNCHANGED <<sb_built, sb_texture, sb_instances, sb_capacity, sb_buffer,
                   sb_issued, sb_nInserts>>

\* SpriteBatch::clear
SbClear ==
    /\ SbUsable
    /\ sb_dirty' = TRUE
    /\ sb_sprites' = ArenaClear(sb_sprites)
    /\ sb_free' = ArenaClearFree(sb_sprites, sb_free, 1)
    /\ sb_ret' = [status |-> "ok", val |-> None]
    /\ sb_call' = [op |-> "clear"]
    /\ UNCHANGED <<sb_built, sb_texture, sb_instances, sb_capacity, sb_buffer,
                   sb_issued, sb_nInserts>>

\* mutant: a mutable borrow leaves the flag as it is
MutIndexMutKeepsDirty(dirty) == dirty

\* IndexMut::index_mut, line 1335: the flag after the borrow
IndexMutDirty(dirty) == TRUE

\* batch[index] = param: the flag is set before the arena is indexed, and
\* the arena panics on an Index that names no value
SbIndexMut(index, param) ==
    /\ SbUsable
    /\ sb_dirty' = IndexMutDirty(sb_dirty)
    /\ IF ArenaContains(sb_sprites, index)
       THEN /\ sb_sprites' = [sb_sprites EXCEPT ![index[1]].val = Some(param)]
            /\ sb_ret' = [status |-> "ok", val |-> None]
       ELSE /\ sb_ret' = [status |-> "panic", val |-> None]
            /\ UNCHANGED sb_sprites
    /\ sb_call' = [op |-> "index_mut", index |-> index, param |-> param]
    /\ UNCHANGED <<sb_built, sb_texture, sb_free, sb_instances, sb_capacity, sb_buffer,
                   sb_issued, sb_nInserts>>

\* flush(), line 1386: nothing to do when the flag is clear
FlushIsNoop == ~sb_dirty

\* flush(), lines 1392-1402: the instance list rebuilt from the sprites
FlushInstances ==
    LET params == ArenaIter(sb_sprites, 1)
    IN  [k \in 1..Len(params) |-> ToInstanceProperties(params[k], sb_texture)]

\* flush(), lines 1404-1405: the capacity is doubled, once, when the
\* instances outnumber it
FlushCapacity(capacity, n) == IF n > capacity THEN capacity * 2 ELSE capacity

\* Buffer::update with more data than the buffer holds is left to the
\* graphics backend: it may go through or abort
BufferUpdateOutcomes(size, n) == IF n <= size THEN {"ok"} ELSE {"ok", "panic"}

\* SpriteBatch::flush
SbFlush(outcome) ==
    /\ SbUsable
    /\ sb_call' = [op |-> "flush", noop |-> FlushIsNoop]
    /\ IF FlushIsNoop
       THEN /\ outcome = "ok"
            /\ sb_ret' = [status |-> "ok", val |-> None]
            /\ UNCHANGED <<sb_instances, sb_capacity, sb_buffer, sb_dirty>>
       ELSE LET instances == FlushInstances
                capacity  == FlushCapacity(sb_capacity, Len(instances))
                size      == IF Len(instances) > sb_capacity THEN BufferStream(capacity).size
                             ELSE sb_buffer.size
            IN  /\ outcome \in BufferUpdateOutcomes(size, Len(instances))
                /\ sb_instances' = instances
                /\ sb_capacity' = capacity
                /\ sb_buffer' = [size |-> size,
                                 written |-> IF outcome = "ok" THEN Len(instances) ELSE 0]
                /\ sb_dirty' = IF outcome = "ok" THEN FALSE ELSE sb_dirty
                /\ sb_ret' = [status |-> outcome, val |-> None]
    /\ UNCHANGED <<sb_built, sb_texture, sb_sprites, sb_free, sb_issued, sb_nInserts>>

DoWithCapacity ==
    \E texture \in TextureChoices, capacity \in 0..MaxCapacity :
        WithCapacity(texture, capacity) /\ UNCHANGED <<dgVars, tmVars, esVars, scVars>>

DoSbInsert ==
    \E param \in ParamChoices : SbInsert(param) /\ UNCHANGED <<dgVars, tmVars, esVars, scVars>>

DoSbRemove ==
    \E index \in sb_issued : SbRemove(index) /\ UNCHANGED <<dgVars, tmVars, esVars, scVars>>

DoSbClear == SbClear /\ UNCHANGED <<dgVars, tmVars, esVars, scVars>>

DoSbIndexMut ==
    \E index \in sb_issued, param \in ParamChoices :
        SbIndexMut(index, param) /\ UNCHANGED <<dgVars, tmVars, esVars, scVars>>

DoSbFlush ==
    \E outcome \in {"ok", "panic"} :
        SbFlush(outcome) /\ UNCHANGED <<dgVars, tmVars, esVars, scVars>>

SBNext ==
    \/ DoWithCapacity
    \/ DoSbInsert
    \/ DoSbRemove
    \/ DoSbClear
    \/ DoSbIndexMut
    \/ DoSbFlush

-----------------------------------------------------------------------------

Init == DGInit /\ TMInit /\ ESInit /\ SCInit /\ SBInit

\* the dependency graph alone
SpecDG == Init /\ [][DGNext]_vars

\* the world, the hierarchy manager and the transform manager
SpecTM == Init /\ [][TMNext]_vars

\* the change-event stream alone
SpecES == Init /\ [][ESNext]_vars

\* the scene stack alone
SpecSC == Init /\ [][SCNext]_vars

\* the sprite batch alone
SpecSB == Init /\ [][SBNext]_vars

\* the components side by side; they share no state
Next == DGNext \/ TMNext \/ ESNext \/ SCNext \/ SBNext

Spec == Init /\ [][Next]_vars

-----------------------------------------------------------------------------
(* What the claims about the dependency graph speak of *)

\* the names of the graph's nodes
Present == DOMAIN indices

\* <<d, n>>: node n currently declares the present node d as a dependency
DepPairs == {p \in Present \X Present : p[1] \in Range(indices[p[2]].deps)}

RECURSIVE Closure(_)
Closure(R) ==
    LET R2 == R \cup {<<x[1][1], x[2][2]>> : x \in {y \in R \X R : y[1][2] = y[2][1]}}
    IN  IF R2 = R THEN R ELSE Closure(R2)

\* the current dependency lists among present nodes contain a directed cycle
HasCycle == \E n \in Present : <<n, n>> \in Closure(DepPairs)

\* some present node declares a dependency that names no present node
HasDangling == \E n \in Present : \E d \in Range(indices[n].deps) : d \notin Present

\* the places of name n in what sorted() yields
Positions(n) == {k \in 1..Len(sorted) : SortedItems[k][1] = n}

\* the last call was an update() that found the graph dirty
UpdatedDirty == call.op = "update" /\ ~call.noop

\* C1 (topological soundness): once update() has succeeded and no insert()
\* followed, every present dependency d of every node n stands strictly
\* before n in sorted().
C1_TopologicalSoundness ==
    (~sinceUpdate /\ nInserts > 0) =>
        \A p \in DepPairs :
            /\ Positions(p[1]) # {} /\ Positions(p[2]) # {}
            /\ \A kd \in Positions(p[1]), kn \in Positions(p[2]) : kd < kn

C1_Witness ==
    /\ ~sinceUpdate /\ Len(sorted) = 3
    /\ \E a, b, c \in Present : a # b /\ b # c /\ a # c
          /\ <<a, b>> \in DepPairs /\ <<b, c>> \in DepPairs
    /\ \E n \in Present : latest[n].value = 3 /\ call.op = "update"

\* C2 (cycle detection): an update() of a dirty graph returns an error exactly
\* when the current deps among present nodes contain a directed cycle, a
\* self-dependency included; it succeeds with true for every acyclic set.
C2_CycleDetection ==
    UpdatedDirty =>
        /\ (ret.status = "err") <=> HasCycle
        /\ (ret.status = "ok" /\ ret.val = Some(TRUE)) <=> ~HasCycle
        /\ ret.status = "err" => ret.val[1] \in Present

C2_Witness ==
    /\ UpdatedDirty /\ ret.status = "err"
    /\ Present = {"A", "B"}
    /\ indices["A"].deps = <<"B">> /\ indices["B"].deps = <<"A">>

\* C3 (idempotent update): an update() that directly follows a successful
\* update() returns false and leaves what sorted() yields as it was.
C3_IdempotentUpdate ==
    [][(call.op = "update" /\ ret.status = "ok" /\ call'.op = "update")
          => (/\ ret'.status = "ok" /\ ret'.val = Some(FALSE)
              /\ SortedItems' = SortedItems
              /\ changed' = changed /\ ~changed')]_vars

C3_Witness ==
    /\ call.op = "update" /\ call.noop /\ ret.val = Some(FALSE)
    /\ Len(sorted) >= 2 /\ nInserts >= 2

\* C4 (sorted while dirty): sorted() called when an insert() has happened and
\* no update() has succeeded since fails its assertion; whenever it does
\* return, it yields the order cached by the last successful update() over
\* exactly the current nodes, never a stale or partial one.
C4_SortedWhileDirtyPanics ==
    call.op = "sorted" =>
        /\ sinceUpdate => ret.status = "panic"
        /\ ret.status # "panic" =>
              /\ ~sinceUpdate
              /\ ret.val = SortedItems
              /\ \A n \in Present : \E k \in 1..Len(ret.val) :
                     ret.val[k] = <<n, latest[n].value>>
              /\ Len(ret.val) = Cardinality(Present)

C4_Witness ==
    /\ call.op = "sorted" /\ ret.status = "panic"
    /\ sorted # <<>> /\ sinceUpdate

\* C5 (dirty flag): is_dirty() is true exactly when an insert() was made since
\* the last successful update(), false on a new graph; every insert() sets it,
\* also one that repeats the stored name and deps; a failed update() keeps it.
C5_DirtyIffInsertSinceUpdate ==
    /\ IsDirty <=> sinceUpdate
    /\ call.op = "new" => ~IsDirty
    /\ call.op = "insert" => IsDirty
    /\ (call.op = "update" /\ ret.status = "err") => IsDirty

C5_Witness ==
    /\ call.op = "insert" /\ IsDirty
    /\ call.prior # None /\ call.prior[1].deps = call.deps
    /\ sorted # <<>>

\* C6 (unique names): the graph holds exactly one node per inserted name, with
\* the value and deps last inserted under it; insert() returns the value
\* stored under the name before, or none.
C6_UniqueNamesLatestValue ==
    /\ Present = DOMAIN latest
    /\ \A n \in Present :
          /\ indices[n].deps = latest[n].deps
          /\ {i \in 1..Len(graph) : graph[i] # Vacant /\ graph[i][1] = n}
                = {indices[n].graph_index}
          /\ graph[indices[n].graph_index] = <<n, latest[n].value>>
    /\ Len(NodeIdentifiers(graph)) = Cardinality(Present)
    /\ call.op = "insert" =>
          ret.val = IF call.prior = None THEN None ELSE Some(call.prior[1].value)

C6_Witness ==
    /\ call.op = "insert" /\ call.prior # None /\ ret.val = Some(1)
    /\ Cardinality(Present) = 2 /\ nInserts = 3

\* C7 (dangling dependencies): with a dependency that names no present node,
\* insert() succeeds, and update() succeeds unless the present nodes form a
\* cycle; the edges are exactly those between present nodes, and the
\* declaring node is in sorted().
C7_DanglingDepsAreNotErrors ==
    /\ call.op = "insert" => ret.status = "ok"
    /\ (UpdatedDirty /\ HasDangling) =>
          /\ Range(edges) = {<<indices[p[1]].graph_index, indices[p[2]].graph_index>> :
                               p \in DepPairs}
          /\ ~HasCycle =>
                /\ ret.status = "ok"
                /\ \A n \in Present : Cardinality(Positions(n)) = 1

C7_Witness ==
    /\ UpdatedDirty /\ HasDangling /\ ret.status = "ok"
    /\ DepPairs # {} /\ Len(sorted) = 2

-----------------------------------------------------------------------------
(* What the claims about the transform manager speak of *)

\* a hierarchy update() and then a transform update() have just run, with no
\* edit since that hierarchy update()
CycleDone == stage \in {2, 4} /\ ~panicked

\* two such cycles have just run back to back, with no edit in between
TwoCyclesDone == stage = 4 /\ ~panicked

\* r carries a Transform and no Parent: a root
IsRoot(r) == r \in DOMAIN transform /\ r \notin DOMAIN parentComp

\* global(c) = global(p) * local(c)
Composed(c, p) ==
    transform[c].global = Compose(transform[p].global, transform[c].local)

\* C8 (transform composition): whenever a root R and a child C with
\* parent(C) = R exist, after one update() of the hierarchy manager followed
\* by one update() of the transform manager, global(C) = global(R) * L_c and
\* global(R) = L_r.
C8_TransformComposition ==
    CycleDone =>
        \A c \in DOMAIN parentComp \cap DOMAIN transform :
            IsRoot(parentComp[c]) =>
                /\ Composed(c, parentComp[c])
                /\ transform[parentComp[c]].global = transform[parentComp[c]].local

\* C9 (detachment on removal): once the parent of a tracked child C was
\* despawned, or C's Parent was removed, the next hierarchy update() followed
\* by a transform update() leaves global(C) = local(C).
C9_DetachmentOnRemoval ==
    CycleDone =>
        \A c \in detached \cap DOMAIN transform :
            transform[c].global = transform[c].local

C9_Witness ==
    /\ CycleDone /\ removed # {}
    /\ \E c \in detached \cap removed \cap DOMAIN transform :
          /\ c \in DOMAIN parentComp /\ parentComp[c] \notin alive
          /\ transform[c].global = transform[c].local

\* C10 (composition invariant once stable): after two consecutive cycles of
\* hierarchy update() then transform update() with no edit in between, every
\* tracked entity e has global(e) = global(parent(e)) * local(e).
C10_CompositionOnceStable ==
    TwoCyclesDone =>
        \A e \in DOMAIN h_parent :
            (e \in DOMAIN transform /\ h_parent[e] \in DOMAIN transform) =>
                Composed(e, h_parent[e])

\* this step is a TransformManager::update that returned
TransformUpdateReturns == nEdits' = nEdits /\ stage' \in {0, 2, 4} /\ ~panicked'

\* this step is a HierarchyManager::update
HierarchyUpdateStep == nEdits' = nEdits /\ stage' \in {1, 3} /\ ~panicked'

\* this step is an edit of the world
EditStep == nEdits' # nEdits

\* an Inserted or Modified event about e waits on the Transform stream
FlaggedByTransformEvents(e) ==
    <<"Inserted", e>> \in Range(t_events) \/ <<"Modified", e>> \in Range(t_events)

\* e has no Parent component and the hierarchy manager does not track it
Untracked(e) == e \notin DOMAIN parentComp /\ e \notin DOMAIN h_parent

\* C11 (untracked entities): a transform update() that drains an Inserted or
\* Modified event about an entity that carries a Transform, has no Parent and
\* is not tracked leaves global(e) = local(e).
C11_UntrackedGlobalIsLocal ==
    [][TransformUpdateReturns =>
          \A e \in DOMAIN transform' :
              (FlaggedByTransformEvents(e) /\ Untracked(e)) =>
                  transform'[e].global = transform'[e].local]_vars

C11_Witness ==
    /\ stage = 2 /\ ~panicked /\ nEdits >= 3
    /\ \E e \in cycleDirty \cap modified \cap DOMAIN transform :
          /\ Untracked(e)
          /\ transform[e].global = transform[e].local
          /\ HierarchyChildren(e) # {}

\* C12 (one-frame lag only): when an untracked root and a tracked child of it
\* were both flagged in one update cycle, then after the following cycle with
\* no edit global(child) = global(root) * local(child).
C12_OneFrameLagOnly ==
    TwoCyclesDone =>
        \A c \in DOMAIN h_parent \cap DOMAIN transform :
            (/\ IsRoot(h_parent[c]) /\ h_parent[c] \notin DOMAIN h_parent
             /\ {c, h_parent[c]} \subseteq cycleDirty)
                => Composed(c, h_parent[c])

\* C13 (global is stable between updates): an edit of the world or a hierarchy
\* update() changes no entity's global; a write through local_mut() leaves
\* global as it was.
C13_GlobalStableBetweenUpdates ==
    [][(EditStep \/ HierarchyUpdateStep) =>
          \A e \in DOMAIN transform \cap DOMAIN transform' :
              transform'[e].global = transform[e].global]_vars

C13_Witness ==
    \E e \in DOMAIN transform :
        /\ <<"Modified", e>> \in Range(t_events)
        /\ Untracked(e)
        /\ transform[e].local # transform[e].global

\* the events of evs about entity e
EventsAbout(evs, e) == SelectSeq(evs, LAMBDA v : v[2] = e)

\* C16 (hierarchy ancestor ordering): all() lists exactly the tracked entities,
\* each once, and every tracked ancestor of a tracked entity stands before it.
C16_AncestorOrdering ==
    /\ Range(h_all) = DOMAIN h_parent
    /\ Len(h_all) = Cardinality(DOMAIN h_parent)
    /\ \A c \in DOMAIN h_parent :
          \A a \in Ancestors(h_parent, c) \cap DOMAIN h_parent :
              \E i, j \in 1..Len(h_all) : h_all[i] = a /\ h_all[j] = c /\ i < j

C16_Witness ==
    /\ stage \in {1, 3} /\ ~panicked
    /\ \E c \in DOMAIN h_parent :
          /\ h_parent[c] \in DOMAIN h_parent
          /\ h_parent[c] > c
          /\ h_all = <<h_parent[c], c>>

C18_HierarchyEvents ==
    [][HierarchyUpdateStep =>
          LET appended == SubSeq(h_events', Len(h_events) + 1, Len(h_events'))
          IN  /\ Len(h_events') >= Len(h_events)
              /\ SubSeq(h_events', 1, Len(h_events)) = h_events
              /\ \A e \in Entity :
                    LET was == e \in DOMAIN h_parent
                        is  == e \in DOMAIN h_parent'
                    IN  EventsAbout(appended, e) =
                           IF was /\ ~is THEN << <<"Removed", e>> >>
                           ELSE IF is /\ (~was \/ h_parent[e] # h_parent'[e])
                                THEN << <<"ModifiedOrCreated", e>> >>
                                ELSE <<>>]_vars

C18_Witness ==
    /\ stage \in {1, 3} /\ ~panicked
    /\ \E e \in DOMAIN h_parent :
          EventsAbout(h_events, e) = << <<"ModifiedOrCreated", e>>, <<"ModifiedOrCreated", e>> >>

-----------------------------------------------------------------------------
(* What the claims about the change-event stream speak of *)

\* everything published since reader r subscribed
PublishedSince(r) == SubSeq(es_published, es_subAt[r] + 1, Len(es_published))

\* C14 (no double-delivery): for each cursor, what its drains returned so far
\* followed by what it has yet to receive is exactly what was published since
\* it subscribed, in order; a drain leaves nothing pending for its cursor and
\* leaves what each other cursor has yet to receive as it was.
C14_NoDoubleDelivery ==
    /\ \A r \in DOMAIN es_cursor :
          es_received[r].events \o Pending(r) = PublishedSince(r)
    /\ es_call.op = "drain" =>
          /\ Pending(es_call.reader) = <<>>
          /\ \A d \in DOMAIN es_call.others : Pending(d) = es_call.others[d]

C14_Witness ==
    /\ DOMAIN es_cursor = Reader
    /\ es_call.op = "drain"
    /\ es_received[1].events = es_received[2].events
    /\ Len(es_received[1].events) >= 2
    /\ es_received[1].drains > es_received[2].drains
    /\ es_base > 0

\* C15 (subscribe at the tail): the first drain of a cursor returns exactly
\* the events published after its subscribe(), none published before.
C15_SubscribeAtTail ==
    (es_call.op = "drain" /\ es_call.first) =>
        es_ret = PublishedSince(es_call.reader)

C15_Witness ==
    /\ es_call.op = "drain" /\ es_call.first
    /\ es_subAt[es_call.reader] >= 1
    /\ Len(es_ret) >= 1
    /\ Len(es_log) = Len(es_published)

-----------------------------------------------------------------------------
(* What the claims about the scene stack speak of *)

\* C19 (switch): on a stack with a top scene switch() returns; when it
\* returns, it yields the old top for Pop and Replace and none for None and
\* Push, the depth changes by -1 for Pop, 0 for Replace and None, +1 for Push,
\* the scenes below the top stay, and after Push or Replace the given scene is
\* the current one.
C19_SwitchResult ==
    sc_call.op = "switch" =>
        LET before == sc_call.before
            kind   == sc_call.kind
        IN  /\ before # <<>> => sc_ret.status = "ok"
            /\ sc_ret.status = "ok" =>
                  /\ kind = "None" => (sc_ret.val = None /\ scenes = before)
                  /\ kind = "Pop" =>
                        /\ sc_ret.val = Some(Last(before))
                        /\ scenes = Front(before)
                  /\ kind = "Push" =>
                        /\ sc_ret.val = None
                        /\ scenes = Append(before, sc_call.given[1])
                  /\ kind = "Replace" =>
                        /\ sc_ret.val = Some(Last(before))
                        /\ scenes = Append(Front(before), sc_call.given[1])

C19_Witness ==
    /\ sc_call.op = "switch" /\ sc_call.kind = "Replace" /\ sc_ret.status = "ok"
    /\ Len(scenes) = 2 /\ Len(sc_call.before) = 2
    /\ sc_ret.val = Some(sc_call.before[2])
    /\ Last(scenes) = sc_call.given[1]

\* where the top segment of a stack starts: at the topmost scene whose
\* draw_previous() is false, at the bottom when there is none
SegmentStart(scs) ==
    LET stops == {j \in 1..Len(scs) : ~scs[j].draw_previous}
    IN  IF stops = {} THEN 1 ELSE CHOOSE j \in stops : \A k \in stops : k <= j

\* the scenes of the top segment, bottom first
TopSegment(scs) ==
    [k \in 1..(Len(scs) - SegmentStart(scs) + 1) |-> scs[SegmentStart(scs) + k - 1].id]

\* C20 (draw): draw() calls draw on exactly the scenes of the top segment, in
\* bottom-to-top order, and on no scene below it.
C20_DrawTopSegment ==
    sc_call.op = "draw" => sc_drawn = TopSegment(scenes)

-----------------------------------------------------------------------------
(* More of what the claims about the dependency graph speak of *)

\* <<d, n>>: the list last given to insert() for n names the present node d
LatestPairs ==
    {p \in (DOMAIN latest) \X (DOMAIN latest) : p[1] \in Range(latest[p[2]].deps)}

C24_FailedUpdateStaysDirty ==
    [][/\ (call'.op = "update" /\ ret'.status = "err") =>
              (changed' /\ sorted' = sorted /\ failure' = "fresh")
       /\ (failure = "fresh" /\ call'.op # "insert") =>
              /\ changed' /\ sorted' = sorted
              /\ call'.op = "update" => (ret'.status = "err" /\ ~call'.noop)
              /\ call'.op = "sorted" => ret'.status = "panic"]_vars

C24_Witness ==
    /\ failure = "fresh" /\ call.op = "update" /\ ret.status = "err"
    /\ sorted # <<>> /\ changed
    /\ Len(sorted) < Cardinality(Present)

\* C25 (recovery from a cycle): after a failed update() and insert() calls
\* that leave the lists last given free of cycles, update() succeeds with
\* true, its edges are exactly those of the lists last given, and the order
\* it caches puts every present dependency before its dependent.
C25_RecoveryFromCycle ==
    [][(/\ failure = "edited" /\ call'.op = "update"
        /\ \A n \in DOMAIN latest : <<n, n>> \notin Closure(LatestPairs)) =>
          /\ ret'.status = "ok" /\ ret'.val = Some(TRUE)
          /\ ~changed'
          /\ Range(edges') = {<<indices[p[1]].graph_index, indices[p[2]].graph_index>> :
                                 p \in LatestPairs}
          /\ \A p \in LatestPairs :
                \E i, j \in 1..Len(sorted') :
                    /\ i < j
                    /\ graph[sorted'[i]][1] = p[1]
                    /\ graph[sorted'[j]][1] = p[2]]_vars

C25_Witness ==
    /\ failure = "recovered" /\ call.op = "update" /\ ret.val = Some(TRUE)
    /\ Len(sorted) = 2 /\ DepPairs # {}
    /\ nInserts = 3

\* C26 (sorted yields each name once): whenever the graph is clean, sorted()
\* yields every present name exactly once, paired with the value last
\* inserted under it, and nothing else.
C26_SortedEachNameOnce ==
    (~changed /\ nInserts > 0) =>
        /\ Len(sorted) = Cardinality(Present)
        /\ \A n \in Present :
              Cardinality({k \in 1..Len(sorted) :
                              SortedItems[k] = <<n, latest[n].value>>}) = 1
        /\ call.op = "sorted" => (ret.status = "ok" /\ ret.val = SortedItems)

C26_Witness ==
    /\ ~changed /\ call.op = "sorted" /\ ret.status = "ok"
    /\ nInserts = 3 /\ Len(ret.val) = 2
    /\ \E i \in 1..Len(graph) : graph[i] = Vacant
    /\ \E k \in 1..2 : ret.val[k][2] = 3

-----------------------------------------------------------------------------
(* More of what the claims about the scene stack speak of *)

\* C21 (an empty stack is a fault): on an empty stack pop(), current(),
\* update(), event(), switch(Pop) and switch(Replace) all panic, none of them
\* reaches a scene, and the stack is still empty afterwards: a Replace does
\* not leave its new scene pushed.
C21_EmptyStackPanics ==
    (/\ sc_call.op \in {"pop", "current", "update", "event", "switch"}
     /\ sc_call.op = "switch" => sc_call.kind \in {"Pop", "Replace"}
     /\ sc_call.before = <<>>) =>
        /\ sc_ret.status = "panic"
        /\ scenes = <<>>
        /\ sc_notified = <<>>

C21_Witness ==
    /\ sc_call.op = "switch" /\ sc_call.kind = "Replace"
    /\ sc_call.before = <<>> /\ sc_call.given # None
    /\ sc_ret.status = "panic" /\ scenes = <<>>


\* C35 (update of the stack): on a stack with a top scene update() calls
\* update on the top scene and on no other; when the scene answers a
\* SceneSwitch the call returns Ok with exactly that switch applied, and when
\* it answers an error the call returns the error with the stack as it was.
C35_UpdateAppliesSwitch ==
    (sc_call.op = "update" /\ sc_call.before # <<>>) =>
        LET before == sc_call.before
            answer == sc_call.answer
        IN  /\ sc_notified = << <<"update", Last(before).id>> >>
            /\ ~answer.ok => (sc_ret.status = "err" /\ scenes = before)
            /\ answer.ok =>
                  /\ sc_ret.status = "ok"
                  /\ answer.next.kind = "None" => scenes = before
                  /\ answer.next.kind = "Pop" => scenes = Front(before)
                  /\ answer.next.kind = "Push" =>
                        scenes = Append(before, answer.next.scene)
                  /\ answer.next.kind = "Replace" =>
                        scenes = Append(Front(before), answer.next.scene)

C35_Witness ==
    /\ sc_call.op = "update" /\ Len(sc_call.before) = 2
    /\ sc_call.answer.ok /\ sc_call.answer.next.kind = "Replace"
    /\ sc_ret.status = "ok"
    /\ Len(scenes) = 2 /\ Last(scenes).id = 3
    /\ sc_notified = << <<"update", 2>> >>

\* C36 (draw on a stack with scenes): draw() on a stack that holds a scene
\* does not panic, whatever the draw_previous() of its scenes.
C36_DrawNeverPanics ==
    (sc_call.op = "draw" /\ sc_call.before # <<>>) => sc_ret.status # "panic"

\* the last call put a scene on top / the next call takes the top off
Pushed ==
    \/ sc_call.op = "push"
    \/ sc_call.op = "switch" /\ sc_call.kind = "Push"
    \/ sc_call.op = "update" /\ sc_ret.status = "ok" /\ sc_call.answer.next.kind = "Push"

Popping ==
    \/ sc_call'.op = "pop"
    \/ sc_call'.op = "switch" /\ sc_call'.kind = "Pop"
    \/ sc_call'.op = "update" /\ sc_ret'.status = "ok" /\ sc_call'.answer.next.kind = "Pop"

\* C37 (the scenes below the top stay): push(), event() and update() keep the
\* scenes under the top as they were, in order, and reach no scene but the
\* top with update or event; and when a pop follows a push, the stack is
\* again what it was before the push, with the same current scene.
C37_BelowTopUntouched ==
    [][/\ (sc_call'.op \in {"push", "event", "update"} /\ sc_ret'.status # "panic") =>
              /\ Len(scenes') >= Len(scenes) - 1
              /\ \A k \in 1..Len(scenes) :
                    (k < Len(scenes) \/ sc_call'.op # "update") => scenes'[k] = scenes[k]
              /\ \A k \in 1..Len(sc_notified') : sc_notified'[k][2] = Last(scenes).id
              /\ sc_call'.op = "push" => Len(sc_notified') = 0
       /\ (Pushed /\ Popping) =>
              /\ sc_ret'.status # "panic"
              /\ scenes' = sc_call.before]_vars

C37_Witness ==
    /\ sc_call.op = "event" /\ Len(scenes) = 3
    /\ sc_notified = << <<"event", 3>> >>
    /\ scenes = sc_call.before

-----------------------------------------------------------------------------
(* More of what the claims about the transform manager speak of *)

\* the tracked entities below e
TrackedDescendants(e) == {d \in DOMAIN h_parent : e \in Ancestors(h_parent, d)}

\* where e stands in a sequence without repetitions
IndexIn(seq, e) == CHOOSE i \in 1..Len(seq) : seq[i] = e

\* C27 (dirtiness goes down the tree): when an update() that returns starts
\* its walk with a tracked entity in `modified`, every tracked descendant of
\* that entity is recomputed in the same update: afterwards its global is
\* its parent's global composed with its own local.
C27_DirtinessTransitive ==
    [][TransformUpdateReturns =>
          \A e \in ModifiedAtWalk \cap DOMAIN h_parent :
              \A d \in TrackedDescendants(e) :
                  /\ d \in Range(WalkOfUpdate.written)
                  /\ transform'[d].global =
                        Compose(transform'[h_parent[d]].global, transform'[d].local)]_vars

C27_Witness ==
    /\ stage = 2 /\ ~panicked
    /\ \E e \in cycleDirty \cap DOMAIN h_parent :
          \E d \in TrackedDescendants(e) :
              /\ d \notin cycleDirty
              /\ h_parent[d] = e
              /\ Composed(d, e)
              /\ transform[d].global # transform[d].local
              /\ transform[e].global # transform[e].local

\* C28 (a modified root reaches its children): when the only entity dirty in
\* a cycle of HierarchyManager::update and TransformManager::update is an
\* untracked root R with tracked children, then after the cycle
\* global(R) = local(R) and every child C of R has
\* global(C) = global(R) * local(C).
C28_RootModificationPropagates ==
    (stage = 2 /\ ~panicked) =>
        \A r \in Entity :
            (/\ cycleDirty = {r}
             /\ IsRoot(r) /\ r \notin DOMAIN h_parent
             /\ HierarchyChildren(r) # {}) =>
                /\ transform[r].global = transform[r].local
                /\ \A c \in HierarchyChildren(r) : Composed(c, r)

\* C29 (no use before resolution): in an update() that returns, the walk
\* assigns the global of each tracked entity that is dirty, or below a dirty
\* tracked entity, exactly once, and where it assigns both an entity and its
\* tracked parent, the parent's comes first.
C29_ParentWrittenFirst ==
    [][TransformUpdateReturns =>
          LET written == WalkOfUpdate.written
              dirty == {d \in DOMAIN h_parent :
                           \/ d \in ModifiedAtWalk
                           \/ \E e \in ModifiedAtWalk \cap DOMAIN h_parent :
                                 d \in TrackedDescendants(e)}
          IN  /\ Range(written) = dirty
              /\ Len(written) = Cardinality(dirty)
              /\ \A c \in dirty :
                    h_parent[c] \in dirty =>
                        IndexIn(written, h_parent[c]) < IndexIn(written, c)]_vars

C29_Witness ==
    /\ stage = 2 /\ ~panicked
    /\ \E c \in cycleDirty \cap DOMAIN h_parent :
          /\ h_parent[c] \in cycleDirty \cap DOMAIN h_parent
          /\ Composed(c, h_parent[c])
          /\ Composed(h_parent[c], h_parent[h_parent[c]])
          /\ transform[c].global # transform[c].local

\* this step is a TransformManager::update, whether it returns or panics
TransformUpdateStep ==
    nEdits' = nEdits /\ ~panicked /\ (panicked' \/ stage' \in {0, 2, 4})

\* C30 (removal of a parent's Transform): when a transform update(), run
\* right after the hierarchy's, drains Removed(e) for a live entity e whose
\* Transform component was removed, every current child of e is in
\* `modified` when the walk starts, the update does not panic, and each such
\* child that carries a Transform ends with global = local while e has none.
C30_ParentTransformRemoved ==
    [][(TransformUpdateStep /\ stage = 1) =>
          \A e \in alive :
              <<"Removed", e>> \in Range(t_events) =>
                  \A c \in HierarchyChildren(e) :
                      /\ c \in ModifiedAtWalk
                      /\ ~panicked'
                      /\ (e \notin DOMAIN transform /\ c \in DOMAIN transform) =>
                            transform'[c].global = transform'[c].local]_vars

\* the tracked entities the walk of this update() reaches dirty, if it goes on
DirtyInWalk ==
    {d \in DOMAIN h_parent :
        \/ d \in ModifiedAtWalk
        \/ \E e \in ModifiedAtWalk \cap DOMAIN h_parent : d \in TrackedDescendants(e)}

\* C31 (a missing ancestor is fatal): a transform update() whose walk has a
\* dirty tracked entity with a parent that carries no Transform panics; it
\* neither skips the entity nor returns.
C31_MissingAncestorFatal ==
    [][(/\ TransformUpdateStep
        /\ \E d \in DirtyInWalk : h_parent[d] \notin DOMAIN transform) =>
          /\ panicked'
          /\ stage' = stage]_vars

C31_Witness ==
    /\ panicked
    /\ \E d \in DOMAIN h_parent :
          /\ d \in DOMAIN transform
          /\ h_parent[d] \in alive
          /\ h_parent[d] \notin DOMAIN transform
          /\ transform[d].global # transform[d].local

\* C32 (the working sets do not persist): a transform update() that finds no
\* event on the hierarchy stream and none on the Transform stream returns and
\* changes no Transform, whatever the update before it processed; and no
\* transform update() leaves an event on either stream.
C32_NoEventsNoChange ==
    [][TransformUpdateStep =>
          /\ t_events' = <<>> /\ h_events' = <<>>
          /\ (t_events = <<>> /\ h_events = <<>>) =>
                (transform' = transform /\ ~panicked')]_vars

C32_Witness ==
    /\ stage = 4 /\ ~panicked
    /\ t_events = <<>> /\ h_events = <<>>
    /\ removed = {} /\ modified = {}
    /\ \E e \in DOMAIN h_parent :
          /\ e \in DOMAIN transform
          /\ e \in cycleDirty
          /\ Composed(e, h_parent[e])
          /\ transform[e].global # transform[e].local

\* C33 (update only derives): a transform update() creates and destroys no
\* entity and no component, changes no local, and changes nothing in the
\* hierarchy manager; of the store it writes global only.
C33_UpdateOnlyDerives ==
    [][TransformUpdateStep =>
          /\ alive' = alive /\ nextId' = nextId
          /\ parentComp' = parentComp
          /\ DOMAIN transform' = DOMAIN transform
          /\ \A e \in DOMAIN transform : transform'[e].local = transform[e].local
          /\ h_parent' = h_parent /\ h_all' = h_all]_vars

C33_Witness ==
    /\ stage = 2 /\ ~panicked
    /\ removed # {}
    /\ \E e \in removed \cap DOMAIN transform :
          /\ transform[e].global = transform[e].local
          /\ e \in cycleDirty

\* C34 (update completes when all() is alive): a transform update() made
\* while every entity of all() is alive and has a parent that carries a
\* Transform does not panic, also when an entity of all() carries no
\* Transform of its own.
C34_CompletesWhenAllAlive ==
    [][(/\ TransformUpdateStep
        /\ \A e \in Range(h_all) :
              e \in alive /\ h_parent[e] \in alive /\ h_parent[e] \in DOMAIN transform) =>
          ~panicked']_vars

-----------------------------------------------------------------------------
(* What the claims about the sprite batch speak of *)

\* the Index values that name a sprite now in the batch
LiveSprites == {index \in sb_issued : ArenaContains(sb_sprites, index)}

\* the instance list holds one entry per sprite in the batch, each the
\* instance of that sprite, by ascending slot
Coherent(instances, slots) ==
    /\ Len(instances) = Cardinality({k \in 1..Len(slots) : slots[k].val # None})
    /\ \A k \in 1..Len(slots) :
          slots[k].val # None =>
              LET pos == Cardinality({j \in 1..k : slots[j].val # None})
              IN  /\ instances[pos].src = slots[k].val[1].extent
                  /\ instances[pos].tx
                        = slots[k].val[1].tx * slots[k].val[1].extent * sb_texture

\* C38 (the instance list follows the sprites): insert, remove, clear and a
\* mutable index each leave the flag set; a flush() with the flag clear
\* changes nothing; a flush() with the flag set that returns rebuilds the
\* instance list and clears the flag; whenever the flag is clear, so after
\* every flush() that returns, the instance list holds exactly one entry per
\* sprite in the batch.
C38_CacheCoherence ==
    [][/\ sb_call'.op \in {"insert", "remove", "clear", "index_mut"} => sb_dirty'
       /\ (sb_call'.op = "flush" /\ ~sb_dirty) =>
              /\ sb_ret'.status = "ok"
              /\ UNCHANGED <<sb_instances, sb_capacity, sb_buffer, sb_dirty>>
       /\ (sb_call'.op = "flush" /\ sb_ret'.status = "ok") =>
              /\ ~sb_dirty'
              /\ Coherent(sb_instances', sb_sprites)
              /\ Len(sb_instances') = Cardinality(LiveSprites)
       /\ (sb_built' /\ ~sb_dirty') => Coherent(sb_instances', sb_sprites')]_vars

C38_Witness ==
    /\ sb_call.op = "flush" /\ ~sb_call.noop /\ sb_ret.status = "ok"
    /\ ~sb_dirty
    /\ Len(sb_instances) = 2
    /\ Cardinality(sb_issued) = 3
    /\ sb_instances[1] # sb_instances[2]

\* C39 (the capacity covers the instances): after every flush() the
\* recorded capacity, and the size of the buffer made for it, is at least the
\* number of instances flush() handed to the buffer.
C39_CapacityCoversInstances ==
    sb_call.op = "flush" =>
        /\ sb_capacity >= Len(sb_instances)
        /\ sb_buffer.size >= Len(sb_instances)
        /\ sb_buffer.written <= sb_capacity

=============================================================================
